---- MODULE Spec2Model ----
(***************************************************************************)
(* Model of pkg/controller/hpa/hpa_controller.go: the HPA annotation       *)
(* controller.  An informer feeds add/update notifications into a          *)
(* rate-limited work queue; a pool of workers drains the queue, each       *)
(* running syncHPA on one key and handing the outcome to handleErr.        *)
(*                                                                         *)
(* Strings that the code builds with fmt.Sprintf are sequences of           *)
(* one-character strings, so that formatting is computed, not assumed.     *)
(***************************************************************************)
EXTENDS Integers, Sequences, FiniteSets, TLC

\* ------------------------------------------------------------------ bounds

NumWorkers == 2          \* the `workers` argument of Run
MaxMetrics == 2          \* longest Spec.Metrics list drawn for the sync specification
MaxFails == 1            \* Spec: failures in a row injected per key
MaxFailsRetry == 17      \* SpecRetry: failures in a row injected per key

\* --------------------------------------------------------- program constants

maxRetries == 15

\* A nil pointer, and a pointer to v.
Nil == [nil |-> TRUE]
Ptr(v) == [nil |-> FALSE, v |-> v]

\* What the lister returns besides an object: a not-found error, another error.
NotFound == [kind |-> "notFound"]
LookupError == [kind |-> "error"]
\* An event payload that carries no object metadata.
NoMeta == [kind |-> "noMeta"]
cpuTargetUtilization == "cpuTargetUtilization"
memoryTargetValue == "memoryTargetValue"
ResourceCPU == "cpu"
ResourceMemory == "memory"

\* ------------------------------------------------------------- the objects

Namespaces == {"ns1"}
Names == {"a", "b"}

\* cache.MetaNamespaceKeyFunc: "<namespace>/<name>", or "<name>" alone when the
\* namespace is empty; an error for a payload without object metadata.
MetaNamespaceKeyFunc(obj) ==
    IF obj.kind # "hpa" THEN [err |-> TRUE, key |-> ""]
    ELSE [err |-> FALSE,
          key |-> IF obj.namespace = "" THEN obj.name ELSE obj.namespace \o "/" \o obj.name]

ObjectMeta(ns, n) == [kind |-> "hpa", namespace |-> ns, name |-> n]

Keys == {MetaNamespaceKeyFunc(ObjectMeta(ns, n)).key : ns \in Namespaces, n \in Names}

\* cache.SplitMetaNamespaceKey: the (namespace, name) pair of a key, or an error
\* for a key that is not of the form "name" or "namespace/name".
SplitMetaNamespaceKey(key) ==
    LET pairs == {p \in (Namespaces \cup {""}) \X Names :
                    MetaNamespaceKeyFunc(ObjectMeta(p[1], p[2])).key = key}
    IN  IF pairs = {} THEN [err |-> TRUE, namespace |-> "", name |-> ""]
        ELSE LET p == CHOOSE q \in pairs : TRUE
             IN  [err |-> FALSE, namespace |-> p[1], name |-> p[2]]

\* Target.AverageUtilization is *int32: Nil or a pointer to a number.
CPUTargets == {Ptr(70), Ptr(-1), Nil}
MemoryTargets == {Ptr(60), Ptr(0), Nil}

\* A v2.MetricSpec: Resource is nil for the metric kinds the controller ignores.
ResourceMetric(name, util) == [resource |-> Ptr([name |-> name, averageUtilization |-> util])]
OtherMetric == [resource |-> Nil]

MetricSpecs ==
    {OtherMetric}
    \cup {ResourceMetric(ResourceCPU, u) : u \in CPUTargets}
    \cup {ResourceMetric(ResourceMemory, u) : u \in MemoryTargets}
    \cup {ResourceMetric("storage", Nil)}

RECURSIVE SeqsUpTo(_, _)
SeqsUpTo(S, n) ==
    IF n = 0 THEN {<<>>}
    ELSE LET shorter == SeqsUpTo(S, n - 1)
         IN  shorter \cup {Append(s, x) : s \in {t \in shorter : Len(t) = n - 1}, x \in S}

\* ObjectMeta.Annotations is a Go map: nil, or a map from keys to strings.
NilMap == [nil |-> TRUE, kv |-> <<>>]
GoMap(kv) == [nil |-> FALSE, kv |-> kv]

AnnotationMaps ==
    { NilMap,
      GoMap("owner" :> <<"x">>),
      GoMap((cpuTargetUtilization :> <<"7", "0">>)),
      GoMap(("owner" :> <<"x">>) @@ (cpuTargetUtilization :> <<"1">>)
                                 @@ (memoryTargetValue :> <<"6", "0">>)) }

HPA(ns, n, metrics, ann) ==
    [kind |-> "hpa", namespace |-> ns, name |-> n, metrics |-> metrics, annotations |-> ann]

\* ---------------------------------------------------------- pure functions

Digits == <<"0", "1", "2", "3", "4", "5", "6", "7", "8", "9">>

\* fmt.Sprintf("%d", n) for n >= 0: base 10, most significant digit first.
RECURSIVE FormatUint(_)
FormatUint(n) ==
    IF n < 10 THEN <<Digits[n + 1]>>
    ELSE Append(FormatUint(n \div 10), Digits[(n % 10) + 1])

\* fmt.Sprintf("%d", n): a minus sign before the digits of a negative number.
SprintfD(n) == IF n < 0 THEN <<"-">> \o FormatUint(0 - n) ELSE FormatUint(n)

Panic == [panic |-> TRUE, len |-> 0, kv |-> <<>>]

\* The loop body of annotations for one metric, on the map built so far.
\* Dereferencing a nil Target.AverageUtilization panics.
AnnotateMetric(m, metric) ==
    IF m.panic \/ metric.resource.nil THEN m
    ELSE LET r == metric.resource.v
             afterCPU ==
                 IF r.name = ResourceCPU
                 THEN IF r.averageUtilization.nil THEN Panic
                      ELSE [m EXCEPT !.kv = (cpuTargetUtilization :> SprintfD(r.averageUtilization.v)) @@ m.kv]
                 ELSE m
         IN  IF afterCPU.panic THEN afterCPU
             ELSE IF r.name = ResourceMemory
                  THEN IF r.averageUtilization.nil THEN Panic
                       ELSE [afterCPU EXCEPT !.kv = (memoryTargetValue :> SprintfD(r.averageUtilization.v)) @@ afterCPU.kv]
                  ELSE afterCPU

RECURSIVE AnnotateAll(_, _)
AnnotateAll(m, metrics) ==
    IF metrics = <<>> THEN m
    ELSE AnnotateAll(AnnotateMetric(m, Head(metrics)), Tail(metrics))

\* annotations(hpa): nil for an empty metric list, else the map the loop builds.
\* The result is [panic, len, kv]: len is len(map), 0 for nil.
annotations(hpa) ==
    IF Len(hpa.metrics) = 0 THEN [panic |-> FALSE, len |-> 0, kv |-> <<>>]
    ELSE LET m == AnnotateAll([panic |-> FALSE, len |-> 0, kv |-> <<>>], hpa.metrics)
         IN  IF m.panic THEN Panic
             ELSE [m EXCEPT !.len = Cardinality(DOMAIN m.kv)]

\* The merge replaced by an assignment of the computed map.
MergeAnnotationsReplace(ann, computed) == GoMap(computed)

\* The merge loop of syncHPA: every computed entry is written over the copy's map,
\* which is made first when it is nil.
MergeAnnotations(ann, computed) ==
    GoMap([x \in DOMAIN ann.kv \cup DOMAIN computed |->
              IF x \in DOMAIN computed THEN computed[x] ELSE ann.kv[x]])

\* ------------------------------------------------------------------ state

Workers == 1..NumWorkers

VARIABLES
    cache,          \* the informer's store, read through hpaLister: key -> object or NotFound
    hasSynced,      \* what v.hpaSynced() returns
    stopCh,         \* TRUE once stopCh is closed
    runPc,          \* where Run is: "new", "check", "poll", "launch", "block", "returned"
    runResult,      \* what Run returned: "none" (still running), "nil", "error"
    wq,             \* v.queue, the work queue proper: queue, dirty, processing, shuttingDown
    waitingForAdd,  \* v.queue, the delaying part: keys of AddAfter whose delay has not elapsed
    failures,       \* v.queue, the rate limiter: key -> failures counted (NumRequeues)
    pc,             \* worker -> "unstarted", "until", "get", "sync", "update", "handleErr", "done",
                    \*           "exited", "panicking", "panicked"
    item,           \* worker -> the key Get delivered to it (eKey)
    err,            \* worker -> what syncHPA returned: FALSE for nil
    crashed,        \* TRUE once a panic has taken the process down
    errorSink,      \* the kind of the last error given to utilruntime.HandleError
    call,           \* worker -> what its current syncHPA read from the lister (hpa) and the
                    \*           Update call it made with the merged copy (hpaCopyed)
    \* observers: written by the actions, read only by the properties and the fault bounds
    prevCall,       \* key -> the call record of the last completed reconcile of the key
    verdict,        \* worker -> what handleErr decided: "forget", "retry", "drop"
    adds,           \* key -> Add calls the queue accepted since Get last delivered the key
    readded,        \* key -> those of them made while the key was processing
    consecFails,    \* key -> failed syncHPA calls since the last successful one
    pendingEvent,   \* key -> a notification was enqueued and no Get has delivered the key since
    stopBeforeSync, \* stopCh was closed while the cache had not synced
    lateDelivery    \* a Get has delivered a key after ShutDown

vars == <<cache, hasSynced, stopCh, runPc, runResult, wq, waitingForAdd, failures,
          pc, item, err, crashed, errorSink,
          call, prevCall, verdict, adds, readded, consecFails, pendingEvent, stopBeforeSync,
          lateDelivery>>

envVars == <<cache, hasSynced, stopCh>>
runVars == <<runPc, runResult>>
queueVars == <<wq, waitingForAdd, failures>>
workerVars == <<pc, item, err>>
obsVars == <<call, prevCall, verdict, adds, readded, consecFails, pendingEvent, stopBeforeSync,
            lateDelivery>>

NoCall == [seen |-> [kind |-> "none"], issued |-> FALSE, sent |-> Nil]

Range(s) == {s[i] : i \in DOMAIN s}
Count(k, s) == Cardinality({i \in DOMAIN s : s[i] = k})
\* The observers count Add calls as "none", "one", "many" (two or more).
Bump(n) == IF n = "none" THEN "one" ELSE "many"

\* ------------------------------------------------------------ work queue
\* workqueue.Type, the delaying queue and the rate limiter behind
\* workqueue.RateLimitingInterface, as section 4.1 of the specification states them.

\* Add without the dirty check: the key is queued once per call.
QueueAddNoDedup(q, k) ==
    IF q.shuttingDown THEN q
    ELSE IF k \in q.processing THEN [q EXCEPT !.dirty = @ \cup {k}]
    ELSE [q EXCEPT !.dirty = @ \cup {k}, !.queue = Append(@, k)]

\* Add: dropped after ShutDown and for a key already marked dirty; a key that is
\* being processed is only marked dirty, any other key is appended to the queue.
QueueAdd(q, k) ==
    IF q.shuttingDown \/ k \in q.dirty THEN q
    ELSE IF k \in q.processing THEN [q EXCEPT !.dirty = @ \cup {k}]
    ELSE [q EXCEPT !.dirty = @ \cup {k}, !.queue = Append(@, k)]

\* Get on a queue that holds a key: the head leaves the queue and the dirty set
\* and enters the processing set.
QueueGet(q) ==
    [q EXCEPT !.queue = Tail(@),
              !.processing = @ \cup {Head(q.queue)},
              !.dirty = @ \ {Head(q.queue)}]

\* Done: the key leaves the processing set; when it was marked dirty meanwhile
\* it is appended to the queue.
QueueDone(q, k) ==
    IF k \in q.dirty
    THEN [q EXCEPT !.processing = @ \ {k}, !.queue = Append(@, k)]
    ELSE [q EXCEPT !.processing = @ \ {k}]

QueueShutDown(q) == [q EXCEPT !.shuttingDown = TRUE]

\* NumRequeues: the failures the rate limiter has counted for the key.
NumRequeues(k) == failures[k]

\* AddRateLimited: the rate limiter counts one more failure and the key is handed
\* to AddAfter with a positive delay, which drops it after ShutDown.
AddRateLimited(k) ==
    /\ failures' = [failures EXCEPT ![k] = @ + 1]
    /\ waitingForAdd' = IF wq.shuttingDown THEN waitingForAdd ELSE waitingForAdd \cup {k}

\* Forget: the rate limiter stops tracking the key.
Forget(k) ==
    /\ failures' = [failures EXCEPT ![k] = 0]
    /\ UNCHANGED waitingForAdd

\* What the observers record of an Add call the queue accepts.
NoteAdd(k) ==
    IF wq.shuttingDown THEN UNCHANGED <<adds, readded>>
    ELSE /\ adds' = [adds EXCEPT ![k] = Bump(@)]
         /\ readded' = IF k \in wq.processing THEN [readded EXCEPT ![k] = Bump(@)] ELSE readded

\* The delay of a waiting key elapses: the delaying queue's loop calls Add.  The
\* loop ends with ShutDown.
DelayElapses(k) ==
    /\ ~crashed
    /\ k \in waitingForAdd
    /\ ~wq.shuttingDown
    /\ waitingForAdd' = waitingForAdd \ {k}
    /\ wq' = QueueAdd(wq, k)
    /\ NoteAdd(k)
    /\ UNCHANGED <<envVars, runVars, failures, workerVars, crashed, errorSink,
                   call, prevCall, verdict, consecFails, pendingEvent, stopBeforeSync, lateDelivery>>

\* ------------------------------------------------------------ event router

\* enqueueHPA without the return after the key error: the empty key is added.
enqueueHPANoReturn(obj) ==
    LET k == MetaNamespaceKeyFunc(obj)
    IN  IF k.err
        THEN /\ errorSink' = "key"
             /\ wq' = QueueAdd(wq, k.key)
             /\ UNCHANGED <<adds, readded, pendingEvent>>
        ELSE /\ wq' = QueueAdd(wq, k.key)
             /\ NoteAdd(k.key)
             /\ pendingEvent' = [pendingEvent EXCEPT ![k.key] = TRUE]
             /\ UNCHANGED errorSink

\* enqueueHPA(obj): the key of the payload is added to the queue; a payload whose
\* key cannot be extracted is reported and dropped.
enqueueHPA(obj) ==
    LET k == MetaNamespaceKeyFunc(obj)
    IN  IF k.err
        THEN /\ errorSink' = "key"
             /\ UNCHANGED <<wq, adds, readded, pendingEvent>>
        ELSE /\ wq' = QueueAdd(wq, k.key)
             /\ NoteAdd(k.key)
             /\ pendingEvent' = [pendingEvent EXCEPT ![k.key] = TRUE]
             /\ UNCHANGED errorSink

\* An add or update notification: the informer has stored the object and calls
\* AddFunc(obj) or UpdateFunc(old, obj), both of which are enqueueHPA(obj).
InformerNotify(obj) ==
    /\ ~crashed
    /\ cache' = [cache EXCEPT ![MetaNamespaceKeyFunc(obj).key] = obj]
    /\ enqueueHPA(obj)
    /\ UNCHANGED <<hasSynced, stopCh, runVars, waitingForAdd, failures, workerVars, crashed,
                   call, prevCall, verdict, consecFails, stopBeforeSync, lateDelivery>>

\* The handler is called with a payload that has no object metadata.
InformerNotifyNoMeta ==
    /\ ~crashed
    /\ enqueueHPA(NoMeta)
    /\ UNCHANGED <<envVars, runVars, waitingForAdd, failures, workerVars, crashed,
                   call, prevCall, verdict, consecFails, stopBeforeSync, lateDelivery>>

\* A delete notification: the object leaves the store; no handler is registered.
InformerDelete(k) ==
    /\ ~crashed
    /\ cache[k] # NotFound
    /\ cache' = [cache EXCEPT ![k] = NotFound]
    /\ UNCHANGED <<hasSynced, stopCh, runVars, queueVars, workerVars, crashed, errorSink, obsVars>>

\* The informer completes its initial list.
CacheSyncs ==
    /\ ~crashed
    /\ ~hasSynced
    /\ hasSynced' = TRUE
    /\ UNCHANGED <<cache, stopCh, runVars, queueVars, workerVars, crashed, errorSink, obsVars>>

\* The stop channel is closed.
CloseStop ==
    /\ ~crashed
    /\ ~stopCh
    /\ stopCh' = TRUE
    /\ stopBeforeSync' = ~hasSynced
    /\ UNCHANGED <<cache, hasSynced, runVars, queueVars, workerVars, crashed, errorSink,
                   call, prevCall, verdict, adds, readded, consecFails, pendingEvent,
                   lateDelivery>>

\* -------------------------------------------------------------------- Run

\* Start: Run is called.
Start ==
    /\ ~crashed
    /\ runPc = "new"
    /\ runPc' = "check"
    /\ UNCHANGED <<envVars, runResult, queueVars, workerVars, crashed, errorSink, obsVars>>

\* Run without the wait for the cache: the workers are started at once.
RunCheckNoWait ==
    /\ ~crashed
    /\ runPc = "check"
    /\ runPc' = "launch"
    /\ UNCHANGED <<envVars, runResult, queueVars, workerVars, crashed, errorSink, obsVars>>

\* WaitForCacheSync evaluates v.hpaSynced once before it starts to poll.
RunCheck ==
    /\ ~crashed
    /\ runPc = "check"
    /\ runPc' = IF hasSynced THEN "launch" ELSE "poll"
    /\ UNCHANGED <<envVars, runResult, queueVars, workerVars, crashed, errorSink, obsVars>>

\* WaitForCacheSync polls and finds the cache synced: it returns true.
RunPollSynced ==
    /\ ~crashed
    /\ runPc = "poll"
    /\ hasSynced
    /\ runPc' = "launch"
    /\ UNCHANGED <<envVars, runResult, queueVars, workerVars, crashed, errorSink, obsVars>>

\* WaitForCacheSync finds stopCh closed: it returns false, Run returns the error
\* and its deferred ShutDown runs.
RunPollStopped ==
    /\ ~crashed
    /\ runPc = "poll"
    /\ stopCh
    /\ runPc' = "returned"
    /\ runResult' = "error"
    /\ wq' = QueueShutDown(wq)
    /\ UNCHANGED <<envVars, waitingForAdd, failures, workerVars, crashed, errorSink, obsVars>>

\* One turn of the loop that starts the workers: go wait.Until(v.worker, ...).
RunLaunch ==
    /\ ~crashed
    /\ runPc = "launch"
    /\ LET unstarted == {w \in Workers : pc[w] = "unstarted"}
           next == CHOOSE w \in unstarted : \A o \in unstarted : w <= o
       IN  /\ unstarted # {}
           /\ pc' = [pc EXCEPT ![next] = "until"]
           /\ runPc' = IF unstarted = {next} THEN "block" ELSE "launch"
    /\ UNCHANGED <<envVars, runResult, queueVars, item, err, crashed, errorSink, obsVars>>

\* <-stopCh returns: Run returns nil and its deferred ShutDown runs.
RunStopped ==
    /\ ~crashed
    /\ runPc = "block"
    /\ stopCh
    /\ runPc' = "returned"
    /\ runResult' = "nil"
    /\ wq' = QueueShutDown(wq)
    /\ UNCHANGED <<envVars, waitingForAdd, failures, workerVars, crashed, errorSink, obsVars>>

\* ---------------------------------------------------------------- syncHPA

\* hpaLister.HorizontalPodAutoscalers(namespace).Get(name) on the store.
ListerGet(namespace, name) == cache[MetaNamespaceKeyFunc(ObjectMeta(namespace, name)).key]

SyncResult(e, panics, issued, sent, shared) ==
    [err |-> e, panic |-> panics, issued |-> issued, sent |-> sent, shared |-> shared]

\* syncHPA without the DeepCopy: the merge writes into the store's object.
syncHPANoDeepCopy(key, lookup, updateFails) ==
    IF SplitMetaNamespaceKey(key).err THEN SyncResult(TRUE, FALSE, FALSE, Nil, lookup)
    ELSE IF lookup = NotFound THEN SyncResult(FALSE, FALSE, FALSE, Nil, lookup)
    ELSE IF lookup = LookupError THEN SyncResult(TRUE, FALSE, FALSE, Nil, lookup)
    ELSE LET hpaCopyed == lookup
             annotationsMaps == annotations(hpaCopyed)
             merged == IF annotationsMaps.len # 0
                       THEN [hpaCopyed EXCEPT !.annotations =
                                MergeAnnotations(hpaCopyed.annotations, annotationsMaps.kv)]
                       ELSE hpaCopyed
         IN  IF annotationsMaps.panic THEN SyncResult(FALSE, TRUE, FALSE, Nil, lookup)
             ELSE SyncResult(updateFails, FALSE, TRUE, Ptr(merged), merged)

\* syncHPA returning the lister's error without the IsNotFound check.
syncHPANotFoundIsError(key, lookup, updateFails) ==
    IF SplitMetaNamespaceKey(key).err THEN SyncResult(TRUE, FALSE, FALSE, Nil, lookup)
    ELSE IF lookup = NotFound THEN SyncResult(TRUE, FALSE, FALSE, Nil, lookup)
    ELSE IF lookup = LookupError THEN SyncResult(TRUE, FALSE, FALSE, Nil, lookup)
    ELSE LET hpaCopyed == lookup
             annotationsMaps == annotations(hpaCopyed)
             merged == IF annotationsMaps.len # 0
                       THEN [hpaCopyed EXCEPT !.annotations =
                                MergeAnnotations(hpaCopyed.annotations, annotationsMaps.kv)]
                       ELSE hpaCopyed
         IN  IF annotationsMaps.panic THEN SyncResult(FALSE, TRUE, FALSE, Nil, lookup)
             ELSE SyncResult(updateFails, FALSE, TRUE, Ptr(merged), lookup)

\* syncHPA skipping the Update call when the merge changed nothing.
syncHPADiffSkip(key, lookup, updateFails) ==
    IF SplitMetaNamespaceKey(key).err THEN SyncResult(TRUE, FALSE, FALSE, Nil, lookup)
    ELSE IF lookup = NotFound THEN SyncResult(FALSE, FALSE, FALSE, Nil, lookup)
    ELSE IF lookup = LookupError THEN SyncResult(TRUE, FALSE, FALSE, Nil, lookup)
    ELSE LET hpaCopyed == lookup
             annotationsMaps == annotations(hpaCopyed)
             merged == IF annotationsMaps.len # 0
                       THEN [hpaCopyed EXCEPT !.annotations =
                                MergeAnnotations(hpaCopyed.annotations, annotationsMaps.kv)]
                       ELSE hpaCopyed
         IN  IF annotationsMaps.panic THEN SyncResult(FALSE, TRUE, FALSE, Nil, lookup)
             ELSE IF merged = hpaCopyed THEN SyncResult(FALSE, FALSE, FALSE, Nil, lookup)
             ELSE SyncResult(updateFails, FALSE, TRUE, Ptr(merged), lookup)

\* syncHPA(key) given what the lister returns and whether the Update call fails:
\* the error returned, whether it panicked, the Update call and its object, and the
\* store's object after the call.
syncHPA(key, lookup, updateFails) ==
    IF SplitMetaNamespaceKey(key).err THEN SyncResult(TRUE, FALSE, FALSE, Nil, lookup)
    ELSE IF lookup = NotFound THEN SyncResult(FALSE, FALSE, FALSE, Nil, lookup)
    ELSE IF lookup = LookupError THEN SyncResult(TRUE, FALSE, FALSE, Nil, lookup)
    ELSE LET hpaCopyed == lookup
             annotationsMaps == annotations(hpaCopyed)
             merged == IF annotationsMaps.len # 0
                       THEN [hpaCopyed EXCEPT !.annotations =
                                MergeAnnotations(hpaCopyed.annotations, annotationsMaps.kv)]
                       ELSE hpaCopyed
         IN  IF annotationsMaps.panic THEN SyncResult(FALSE, TRUE, FALSE, Nil, lookup)
             ELSE SyncResult(updateFails, FALSE, TRUE, Ptr(merged), lookup)

\* --------------------------------------------------------------- workers

\* wait.Until: the worker function is run again until stopCh is closed.
WorkerUntil(w) ==
    /\ ~crashed
    /\ pc[w] = "until"
    /\ pc' = [pc EXCEPT ![w] = IF stopCh THEN "exited" ELSE "get"]
    /\ UNCHANGED <<envVars, runVars, queueVars, item, err, crashed, errorSink, obsVars>>

\* processNextWorkItem returning false as soon as the queue is shutting down,
\* without asking Get for the keys still queued.
WorkerGetQuitOnShutDown(w) ==
    /\ ~crashed
    /\ pc[w] = "get"
    /\ IF wq.shuttingDown
       THEN /\ pc' = [pc EXCEPT ![w] = "until"]
            /\ UNCHANGED <<wq, item, adds, readded, pendingEvent, lateDelivery>>
       ELSE LET k == Head(wq.queue)
            IN  /\ wq.queue # <<>>
                /\ wq' = QueueGet(wq)
                /\ item' = [item EXCEPT ![w] = k]
                /\ pc' = [pc EXCEPT ![w] = "sync"]
                /\ adds' = [adds EXCEPT ![k] = "none"]
                /\ readded' = [readded EXCEPT ![k] = "none"]
                /\ pendingEvent' = [pendingEvent EXCEPT ![k] = FALSE]
                /\ lateDelivery' = (lateDelivery \/ wq.shuttingDown)
    /\ UNCHANGED <<envVars, runVars, waitingForAdd, failures, err, crashed, errorSink,
                   call, prevCall, verdict, consecFails, stopBeforeSync>>

\* processNextWorkItem with Done called right after Get instead of deferred.
WorkerGetDoneEarly(w) ==
    /\ ~crashed
    /\ pc[w] = "get"
    /\ IF wq.queue # <<>>
       THEN LET k == Head(wq.queue)
            IN  /\ wq' = QueueDone(QueueGet(wq), k)
                /\ item' = [item EXCEPT ![w] = k]
                /\ pc' = [pc EXCEPT ![w] = "sync"]
                /\ adds' = [adds EXCEPT ![k] = "none"]
                /\ readded' = [readded EXCEPT ![k] = "none"]
                /\ pendingEvent' = [pendingEvent EXCEPT ![k] = FALSE]
                /\ lateDelivery' = (lateDelivery \/ wq.shuttingDown)
       ELSE /\ wq.shuttingDown
            /\ pc' = [pc EXCEPT ![w] = "until"]
            /\ UNCHANGED <<wq, item, adds, readded, pendingEvent, lateDelivery>>
    /\ UNCHANGED <<envVars, runVars, waitingForAdd, failures, err, crashed, errorSink,
                   call, prevCall, verdict, consecFails, stopBeforeSync>>

\* processNextWorkItem, v.queue.Get(): blocks on an empty queue until ShutDown;
\* then quit is true and the worker function returns.
WorkerGet(w) ==
    /\ ~crashed
    /\ pc[w] = "get"
    /\ IF wq.queue # <<>>
       THEN LET k == Head(wq.queue)
            IN  /\ wq' = QueueGet(wq)
                /\ item' = [item EXCEPT ![w] = k]
                /\ pc' = [pc EXCEPT ![w] = "sync"]
                /\ adds' = [adds EXCEPT ![k] = "none"]
                /\ readded' = [readded EXCEPT ![k] = "none"]
                /\ pendingEvent' = [pendingEvent EXCEPT ![k] = FALSE]
                /\ lateDelivery' = (lateDelivery \/ wq.shuttingDown)
       ELSE /\ wq.shuttingDown
            /\ pc' = [pc EXCEPT ![w] = "until"]
            /\ UNCHANGED <<wq, item, adds, readded, pendingEvent, lateDelivery>>
    /\ UNCHANGED <<envVars, runVars, waitingForAdd, failures, err, crashed, errorSink,
                   call, prevCall, verdict, consecFails, stopBeforeSync>>

\* processNextWorkItem, err := v.syncHPA(eKey), up to the Update call: the key is
\* split, the lister is read (the lookup may fail, at most maxFails times in a row
\* for a key), the object is copied and the annotations are merged into the copy.
\* syncHPA returns here on a key error, a missing object or a lookup error; a nil
\* target panics; otherwise the Update request goes out and the worker waits for
\* the answer.  The key's parts, the lister's answer and syncHPA's result are each
\* bound once.
WorkerSync(w, maxFails) ==
    /\ ~crashed
    /\ pc[w] = "sync"
    /\ \E lookupFails \in BOOLEAN :
       \E split \in {SplitMetaNamespaceKey(item[w])} :
       \E lookup \in {IF lookupFails THEN LookupError
                      ELSE ListerGet(split.namespace, split.name)} :
       \E r \in {syncHPA(item[w], lookup, FALSE)} :
         LET key == item[w]
             returns == ~r.panic /\ ~r.issued
         IN  /\ lookupFails => consecFails[key] < maxFails
             /\ cache' = IF lookup.kind = "hpa" THEN [cache EXCEPT ![key] = r.shared] ELSE cache
             /\ pc' = [pc EXCEPT ![w] = IF r.panic THEN "panicking"
                                        ELSE IF r.issued THEN "update" ELSE "handleErr"]
             /\ call' = IF r.panic THEN call
                        ELSE [call EXCEPT ![w] =
                                 [seen |-> lookup, issued |-> r.issued, sent |-> r.sent]]
             /\ err' = IF returns THEN [err EXCEPT ![w] = r.err] ELSE err
             /\ consecFails' = IF returns
                               THEN [consecFails EXCEPT ![key] = IF r.err THEN @ + 1 ELSE 0]
                               ELSE consecFails
    /\ UNCHANGED <<hasSynced, stopCh, runVars, queueVars, item, crashed, errorSink,
                   prevCall, verdict, adds, readded, pendingEvent, stopBeforeSync, lateDelivery>>

\* syncHPA, the answer of the Update call and the return: the call was made with
\* context.Background(), so nothing but the API server's answer ends the wait.  The
\* call may fail (at most maxFails times in a row for a key).
WorkerUpdate(w, maxFails) ==
    /\ ~crashed
    /\ pc[w] = "update"
    /\ \E updateFails \in BOOLEAN :
       \E r \in {syncHPA(item[w], call[w].seen, updateFails)} :
         LET key == item[w]
         IN  /\ updateFails => consecFails[key] < maxFails
             /\ err' = [err EXCEPT ![w] = r.err]
             /\ consecFails' = [consecFails EXCEPT ![key] = IF r.err THEN @ + 1 ELSE 0]
    /\ pc' = [pc EXCEPT ![w] = "handleErr"]
    /\ UNCHANGED <<envVars, runVars, queueVars, item, crashed, errorSink,
                   call, prevCall, verdict, adds, readded, pendingEvent, stopBeforeSync,
                   lateDelivery>>

\* processNextWorkItem, the deferred v.queue.Done(eKey) run by a panic of syncHPA
\* while it unwinds the worker's stack; handleErr is skipped.
WorkerPanicDone(w) ==
    /\ ~crashed
    /\ pc[w] = "panicking"
    /\ wq' = QueueDone(wq, item[w])
    /\ pc' = [pc EXCEPT ![w] = "panicked"]
    /\ UNCHANGED <<envVars, runVars, waitingForAdd, failures, item, err, crashed, errorSink,
                   obsVars>>

\* wait.Until's deferred HandleCrash: it reports the panic and raises it again,
\* which ends the process and with it every goroutine.
HandleCrash(w) ==
    /\ ~crashed
    /\ pc[w] = "panicked"
    /\ crashed' = TRUE
    /\ UNCHANGED <<envVars, runVars, queueVars, workerVars, errorSink, obsVars>>

\* handleErr without the Forget of a key whose sync succeeded.
handleErrNoForget(w) ==
    LET key == item[w]
    IN  IF ~err[w]
        THEN /\ UNCHANGED <<failures, waitingForAdd>>
             /\ verdict' = [verdict EXCEPT ![w] = "forget"]
             /\ UNCHANGED errorSink
        ELSE IF NumRequeues(key) < maxRetries
        THEN /\ AddRateLimited(key)
             /\ verdict' = [verdict EXCEPT ![w] = "retry"]
             /\ UNCHANGED errorSink
        ELSE /\ Forget(key)
             /\ verdict' = [verdict EXCEPT ![w] = "drop"]
             /\ errorSink' = "sync"

\* handleErr without the retry ceiling: every failure is added again.
handleErrNoCeiling(w) ==
    LET key == item[w]
    IN  IF ~err[w]
        THEN /\ Forget(key)
             /\ verdict' = [verdict EXCEPT ![w] = "forget"]
             /\ UNCHANGED errorSink
        ELSE /\ AddRateLimited(key)
             /\ verdict' = [verdict EXCEPT ![w] = "retry"]
             /\ UNCHANGED errorSink

\* handleErr adding the key again, rate limited, when it drops it.
handleErrDropRequeues(w) ==
    LET key == item[w]
    IN  IF ~err[w]
        THEN /\ Forget(key)
             /\ verdict' = [verdict EXCEPT ![w] = "forget"]
             /\ UNCHANGED errorSink
        ELSE IF NumRequeues(key) < maxRetries
        THEN /\ AddRateLimited(key)
             /\ verdict' = [verdict EXCEPT ![w] = "retry"]
             /\ UNCHANGED errorSink
        ELSE /\ failures' = [failures EXCEPT ![key] = 0]
             /\ waitingForAdd' = IF wq.shuttingDown THEN waitingForAdd
                                 ELSE waitingForAdd \cup {key}
             /\ verdict' = [verdict EXCEPT ![w] = "drop"]
             /\ errorSink' = "sync"

\* handleErr comparing with <= instead of <.
handleErrOffByOne(w) ==
    LET key == item[w]
    IN  IF ~err[w]
        THEN /\ Forget(key)
             /\ verdict' = [verdict EXCEPT ![w] = "forget"]
             /\ UNCHANGED errorSink
        ELSE IF NumRequeues(key) <= maxRetries
        THEN /\ AddRateLimited(key)
             /\ verdict' = [verdict EXCEPT ![w] = "retry"]
             /\ UNCHANGED errorSink
        ELSE /\ Forget(key)
             /\ verdict' = [verdict EXCEPT ![w] = "drop"]
             /\ errorSink' = "sync"

\* handleErr(err, key).
handleErr(w) ==
    LET key == item[w]
    IN  IF ~err[w]
        THEN /\ Forget(key)
             /\ verdict' = [verdict EXCEPT ![w] = "forget"]
             /\ UNCHANGED errorSink
        ELSE IF NumRequeues(key) < maxRetries
        THEN /\ AddRateLimited(key)
             /\ verdict' = [verdict EXCEPT ![w] = "retry"]
             /\ UNCHANGED errorSink
        ELSE /\ Forget(key)
             /\ verdict' = [verdict EXCEPT ![w] = "drop"]
             /\ errorSink' = "sync"

\* processNextWorkItem, v.handleErr(err, eKey).
WorkerHandleErr(w) ==
    /\ ~crashed
    /\ pc[w] = "handleErr"
    /\ handleErr(w)
    /\ pc' = [pc EXCEPT ![w] = "done"]
    /\ UNCHANGED <<envVars, runVars, wq, item, err, crashed,
                   call, prevCall, adds, readded, consecFails, pendingEvent, stopBeforeSync, lateDelivery>>

\* processNextWorkItem calling Done twice: once explicitly, once deferred.
WorkerDoneTwice(w, history) ==
    /\ ~crashed
    /\ pc[w] = "done"
    /\ wq' = QueueDone(QueueDone(wq, item[w]), item[w])
    /\ pc' = [pc EXCEPT ![w] = "get"]
    /\ item' = [item EXCEPT ![w] = ""]
    /\ err' = [err EXCEPT ![w] = FALSE]
    /\ prevCall' = IF history THEN [prevCall EXCEPT ![item[w]] = call[w]] ELSE prevCall
    /\ call' = [call EXCEPT ![w] = NoCall]
    /\ verdict' = [verdict EXCEPT ![w] = "none"]
    /\ UNCHANGED <<envVars, runVars, waitingForAdd, failures, crashed, errorSink,
                   adds, readded, consecFails, pendingEvent, stopBeforeSync, lateDelivery>>

\* processNextWorkItem without the deferred Done.
WorkerDoneMissing(w, history) ==
    /\ ~crashed
    /\ pc[w] = "done"
    /\ pc' = [pc EXCEPT ![w] = "get"]
    /\ item' = [item EXCEPT ![w] = ""]
    /\ err' = [err EXCEPT ![w] = FALSE]
    /\ prevCall' = IF history THEN [prevCall EXCEPT ![item[w]] = call[w]] ELSE prevCall
    /\ call' = [call EXCEPT ![w] = NoCall]
    /\ verdict' = [verdict EXCEPT ![w] = "none"]
    /\ UNCHANGED <<envVars, runVars, queueVars, crashed, errorSink,
                   adds, readded, consecFails, pendingEvent, stopBeforeSync, lateDelivery>>

\* processNextWorkItem, the deferred v.queue.Done(eKey), and the return of true.
\* With history, the observer keeps the call record of the reconcile that ends.
WorkerDone(w, history) ==
    /\ ~crashed
    /\ pc[w] = "done"
    /\ wq' = QueueDone(wq, item[w])
    /\ pc' = [pc EXCEPT ![w] = "get"]
    /\ item' = [item EXCEPT ![w] = ""]
    /\ err' = [err EXCEPT ![w] = FALSE]
    /\ prevCall' = IF history THEN [prevCall EXCEPT ![item[w]] = call[w]] ELSE prevCall
    /\ call' = [call EXCEPT ![w] = NoCall]
    /\ verdict' = [verdict EXCEPT ![w] = "none"]
    /\ UNCHANGED <<envVars, runVars, waitingForAdd, failures, crashed, errorSink,
                   adds, readded, consecFails, pendingEvent, stopBeforeSync, lateDelivery>>

\* ------------------------------------------------------- specifications

\* The state after NewHPAController: nothing stored, nothing queued, Run not called.
InitController ==
    /\ cache = [k \in Keys |-> NotFound]
    /\ hasSynced = FALSE
    /\ stopCh = FALSE
    /\ runPc = "new"
    /\ runResult = "none"
    /\ wq = [queue |-> <<>>, dirty |-> {}, processing |-> {}, shuttingDown |-> FALSE]
    /\ waitingForAdd = {}
    /\ failures = [k \in Keys |-> 0]
    /\ pc = [w \in Workers |-> "unstarted"]
    /\ item = [w \in Workers |-> ""]
    /\ err = [w \in Workers |-> FALSE]
    /\ crashed = FALSE
    /\ errorSink = "none"
    /\ call = [w \in Workers |-> NoCall]
    /\ prevCall = [k \in Keys |-> NoCall]
    /\ verdict = [w \in Workers |-> "none"]
    /\ adds = [k \in Keys |-> "none"]
    /\ readded = [k \in Keys |-> "none"]
    /\ consecFails = [k \in Keys |-> 0]
    /\ pendingEvent = [k \in Keys |-> FALSE]
    /\ stopBeforeSync = FALSE
    /\ lateDelivery = FALSE

\* The objects the notifications carry for the given names: a compute metric with
\* a target, a memory metric without an average-utilization target.
EventObjects(names) ==
    {HPA(ns, n, m, NilMap) :
        ns \in Namespaces, n \in names,
        m \in {<<ResourceMetric(ResourceCPU, Ptr(70))>>,
               <<ResourceMetric(ResourceMemory, Nil)>>}}

\* Every object of the given names with at most MaxMetrics metrics.
AllObjects(names) ==
    {HPA(ns, n, m, a) :
        ns \in Namespaces, n \in names,
        m \in SeqsUpTo(MetricSpecs, MaxMetrics), a \in AnnotationMaps}

Init == InitController

Lifecycle ==
    \/ Start
    \/ RunCheck
    \/ RunPollSynced
    \/ RunPollStopped
    \/ RunLaunch
    \/ RunStopped
    \/ CacheSyncs
    \/ CloseStop

\* Spec: the controller from its construction to the return of Run, watching one
\* object.
Next ==
    \/ Lifecycle
    \/ \E obj \in EventObjects({"a"}) : InformerNotify(obj)
    \/ InformerNotifyNoMeta
    \/ \E k \in Keys : InformerDelete(k)
    \/ \E k \in Keys : DelayElapses(k)
    \/ \E w \in Workers : WorkerUntil(w)
    \/ \E w \in Workers : WorkerGet(w)
    \/ \E w \in Workers : WorkerSync(w, MaxFails)
    \/ \E w \in Workers : WorkerUpdate(w, MaxFails)
    \/ \E w \in Workers : WorkerPanicDone(w)
    \/ \E w \in Workers : HandleCrash(w)
    \/ \E w \in Workers : WorkerHandleErr(w)
    \/ \E w \in Workers : WorkerDone(w, FALSE)

Spec == Init /\ [][Next]_vars

\* The controller once Run has seen the cache synced and has started its workers,
\* which block in Get on the empty queue.
InitRunning ==
    /\ cache = [k \in Keys |-> NotFound]
    /\ hasSynced = TRUE
    /\ stopCh = FALSE
    /\ runPc = "block"
    /\ runResult = "none"
    /\ wq = [queue |-> <<>>, dirty |-> {}, processing |-> {}, shuttingDown |-> FALSE]
    /\ waitingForAdd = {}
    /\ failures = [k \in Keys |-> 0]
    /\ pc = [w \in Workers |-> "get"]
    /\ item = [w \in Workers |-> ""]
    /\ err = [w \in Workers |-> FALSE]
    /\ crashed = FALSE
    /\ errorSink = "none"
    /\ call = [w \in Workers |-> NoCall]
    /\ prevCall = [k \in Keys |-> NoCall]
    /\ verdict = [w \in Workers |-> "none"]
    /\ adds = [k \in Keys |-> "none"]
    /\ readded = [k \in Keys |-> "none"]
    /\ consecFails = [k \in Keys |-> 0]
    /\ pendingEvent = [k \in Keys |-> FALSE]
    /\ stopBeforeSync = FALSE
    /\ lateDelivery = FALSE

\* SpecQueue: the running controller, its workers and the notifications of two
\* objects.
NextQueue ==
    \/ \E obj \in EventObjects(Names) : InformerNotify(obj)
    \/ \E k \in Keys : InformerDelete(k)
    \/ \E k \in Keys : DelayElapses(k)
    \/ \E w \in Workers : WorkerGet(w)
    \/ \E w \in Workers : WorkerSync(w, MaxFails)
    \/ \E w \in Workers : WorkerUpdate(w, MaxFails)
    \/ \E w \in Workers : WorkerPanicDone(w)
    \/ \E w \in Workers : HandleCrash(w)
    \/ \E w \in Workers : WorkerHandleErr(w)
    \/ \E w \in Workers : WorkerDone(w, FALSE)

SpecQueue == InitRunning /\ [][NextQueue]_vars

\* SpecRetry: the running controller and one object whose reconcile may fail
\* MaxFailsRetry times in a row.
NextRetry ==
    \/ \E obj \in EventObjects({"a"}) : InformerNotify(obj)
    \/ \E k \in Keys : DelayElapses(k)
    \/ \E w \in Workers : WorkerGet(w)
    \/ \E w \in Workers : WorkerSync(w, MaxFailsRetry)
    \/ \E w \in Workers : WorkerUpdate(w, MaxFailsRetry)
    \/ \E w \in Workers : WorkerPanicDone(w)
    \/ \E w \in Workers : HandleCrash(w)
    \/ \E w \in Workers : WorkerHandleErr(w)
    \/ \E w \in Workers : WorkerDone(w, FALSE)

SpecRetry == InitRunning /\ [][NextRetry]_vars

\* SpecSync: the running controller right after the add notification of one
\* object, drawn from AllObjects; the object is then notified again unchanged
\* (a resync) or deleted.
InitSync ==
    \E obj \in AllObjects({"a"}) :
        LET k == MetaNamespaceKeyFunc(obj).key
        IN  /\ cache = [c \in Keys |-> IF c = k THEN obj ELSE NotFound]
            /\ hasSynced = TRUE
            /\ stopCh = FALSE
            /\ runPc = "block"
            /\ runResult = "none"
            /\ wq = [queue |-> <<k>>, dirty |-> {k}, processing |-> {}, shuttingDown |-> FALSE]
            /\ waitingForAdd = {}
            /\ failures = [c \in Keys |-> 0]
            /\ pc = [w \in Workers |-> "get"]
            /\ item = [w \in Workers |-> ""]
            /\ err = [w \in Workers |-> FALSE]
            /\ crashed = FALSE
            /\ errorSink = "none"
            /\ call = [w \in Workers |-> NoCall]
            /\ prevCall = [c \in Keys |-> NoCall]
            /\ verdict = [w \in Workers |-> "none"]
            /\ adds = [c \in Keys |-> IF c = k THEN "one" ELSE "none"]
            /\ readded = [c \in Keys |-> "none"]
            /\ consecFails = [c \in Keys |-> 0]
            /\ pendingEvent = [c \in Keys |-> c = k]
            /\ stopBeforeSync = FALSE
            /\ lateDelivery = FALSE

\* The resync notification of a stored object: UpdateFunc(old, cur) with old = cur.
InformerResync(k) ==
    /\ cache[k] # NotFound
    /\ InformerNotify(cache[k])

NextSync ==
    \/ \E k \in Keys : InformerResync(k)
    \/ \E k \in Keys : InformerDelete(k)
    \/ \E k \in Keys : DelayElapses(k)
    \/ \E w \in Workers : WorkerGet(w)
    \/ \E w \in Workers : WorkerSync(w, MaxFails)
    \/ \E w \in Workers : WorkerUpdate(w, MaxFails)
    \/ \E w \in Workers : WorkerPanicDone(w)
    \/ \E w \in Workers : HandleCrash(w)
    \/ \E w \in Workers : WorkerHandleErr(w)
    \/ \E w \in Workers : WorkerDone(w, TRUE)

SpecSync == InitSync /\ [][NextSync]_vars

\* SpecFair: the controller of Spec when stopCh is never closed, Run is called,
\* the cache syncs, every goroutine that can take a step eventually takes it and
\* every delay elapses.  Neither the notifications nor the answer of an Update
\* call are forced.
NextFair ==
    \/ Start
    \/ RunCheck
    \/ RunPollSynced
    \/ RunLaunch
    \/ CacheSyncs
    \/ \E obj \in EventObjects({"a"}) : InformerNotify(obj)
    \/ \E k \in Keys : InformerDelete(k)
    \/ \E k \in Keys : DelayElapses(k)
    \/ \E w \in Workers : WorkerUntil(w)
    \/ \E w \in Workers : WorkerGet(w)
    \/ \E w \in Workers : WorkerSync(w, MaxFails)
    \/ \E w \in Workers : WorkerUpdate(w, MaxFails)
    \/ \E w \in Workers : WorkerPanicDone(w)
    \/ \E w \in Workers : HandleCrash(w)
    \/ \E w \in Workers : WorkerHandleErr(w)
    \/ \E w \in Workers : WorkerDone(w, FALSE)

Fairness ==
    /\ WF_vars(Start)
    /\ WF_vars(RunCheck)
    /\ WF_vars(RunPollSynced)
    /\ WF_vars(RunLaunch)
    /\ WF_vars(CacheSyncs)
    /\ \A k \in Keys : WF_vars(DelayElapses(k))
    /\ \A w \in Workers :
          /\ WF_vars(WorkerUntil(w))
          /\ WF_vars(WorkerGet(w))
          /\ WF_vars(WorkerSync(w, MaxFails))
          /\ WF_vars(WorkerPanicDone(w))
          /\ WF_vars(HandleCrash(w))
          /\ WF_vars(WorkerHandleErr(w))
          /\ WF_vars(WorkerDone(w, FALSE))

SpecFair == Init /\ [][NextFair]_vars /\ Fairness

\* ------------------------------------------------------------ properties

\* SpecFairRetry: the running controller when stopCh is never closed, every
\* worker that can take a step eventually takes it and every delay elapses.  One
\* object has a compute metric with a target, the other a memory metric without
\* an average-utilization target.  Neither the notifications nor the answer of
\* an Update call are forced.
NextFairRetry ==
    \/ InformerNotify(HPA("ns1", "a", <<ResourceMetric(ResourceCPU, Ptr(70))>>, NilMap))
    \/ InformerNotify(HPA("ns1", "b", <<ResourceMetric(ResourceMemory, Nil)>>, NilMap))
    \/ \E k \in Keys : DelayElapses(k)
    \/ \E w \in Workers : WorkerGet(w)
    \/ \E w \in Workers : WorkerSync(w, MaxFails)
    \/ \E w \in Workers : WorkerUpdate(w, MaxFails)
    \/ \E w \in Workers : WorkerPanicDone(w)
    \/ \E w \in Workers : HandleCrash(w)
    \/ \E w \in Workers : WorkerHandleErr(w)
    \/ \E w \in Workers : WorkerDone(w, FALSE)

FairnessRetry ==
    /\ \A k \in Keys : WF_vars(DelayElapses(k))
    /\ \A w \in Workers :
          /\ WF_vars(WorkerGet(w))
          /\ WF_vars(WorkerSync(w, MaxFails))
          /\ WF_vars(WorkerPanicDone(w))
          /\ WF_vars(HandleCrash(w))
          /\ WF_vars(WorkerHandleErr(w))
          /\ WF_vars(WorkerDone(w, FALSE))

SpecFairRetry == InitRunning /\ [][NextFairRetry]_vars /\ FairnessRetry

\* SpecStop: the controller of Spec, from its construction to the return of Run,
\* when Run is called and Run and every worker that can take a step eventually
\* take it.  Neither the cache sync, the notifications, the delays, the answer
\* of an Update call nor the close of stopCh are forced.
FairnessStop ==
    /\ WF_vars(Start)
    /\ WF_vars(RunCheck)
    /\ WF_vars(RunPollSynced)
    /\ WF_vars(RunPollStopped)
    /\ WF_vars(RunLaunch)
    /\ WF_vars(RunStopped)
    /\ \A w \in Workers :
          /\ WF_vars(WorkerUntil(w))
          /\ WF_vars(WorkerGet(w))
          /\ WF_vars(WorkerSync(w, MaxFails))
          /\ WF_vars(WorkerPanicDone(w))
          /\ WF_vars(HandleCrash(w))
          /\ WF_vars(WorkerHandleErr(w))
          /\ WF_vars(WorkerDone(w, FALSE))

SpecStop == Init /\ [][Next]_vars /\ FairnessStop

\* Every Update call is answered: no worker waits in one for ever.  What the API
\* server does is no part of the goroutines' scheduling, so no specification
\* assumes it; the liveness claims state it as their hypothesis.
UpdatesReturn == \A w \in Workers : []<>(pc[w] # "update")

\* A worker is between the Get that delivered its key and the matching Done.
InFlight(w) == pc[w] \in {"sync", "update", "handleErr", "done", "panicking"}
Reconciling(k) == \E w \in Workers : InFlight(w) /\ item[w] = k

\* C1: at most one worker is reconciling a given key at any instant: no two
\* workers are between Get and Done on the same key.
C1_OneReconcilePerKey ==
    \A w1, w2 \in Workers :
        (w1 # w2 /\ InFlight(w1) /\ InFlight(w2)) => item[w1] # item[w2]

\* A key is reconciled by one worker, has been added again more than once
\* meanwhile, and another worker waits in Get without being given it.
C1_Witness ==
    \E w1, w2 \in Workers :
        /\ InFlight(w1) /\ pc[w2] = "get"
        /\ readded[item[w1]] = "many"
        /\ item[w1] \in waitingForAdd \cup wq.dirty
        /\ item[w1] \notin Range(wq.queue)

\* C5: however often a queued key is added before Get delivers it, it is queued
\* for exactly one delivery, and once delivered it is not queued again until a
\* fresh Add.
C5_Dedup ==
    \A k \in Keys :
        /\ Count(k, wq.queue) <= 1
        /\ adds[k] = "none" => k \notin Range(wq.queue)
        /\ (adds[k] # "none" /\ k \notin wq.processing) => Count(k, wq.queue) = 1

\* A key that was added more than once while queued and is queued once.
C5_Witness ==
    \E k \in Keys :
        /\ adds[k] = "many" /\ readded[k] = "none"
        /\ k \notin wq.processing
        /\ Count(k, wq.queue) = 1

\* C6: a key added while it is processed is not queued before Done, and after
\* Done it is queued for exactly one more delivery however often it was added.
C6_OneFollowUp ==
    \A k \in Keys :
        /\ Reconciling(k) => Count(k, wq.queue) = 0
        /\ (readded[k] # "none" /\ ~Reconciling(k)) => Count(k, wq.queue) = 1

\* Done has run for a key that was added more than once while it was processed.
C6_Witness ==
    \E k \in Keys :
        /\ readded[k] = "many"
        /\ ~Reconciling(k)
        /\ ~crashed
        /\ Count(k, wq.queue) = 1

\* Worker w takes the handleErr step for a syncHPA that failed.
HandlesFailure(w) == pc[w] = "handleErr" /\ pc'[w] = "done" /\ err[w]

\* C2 as claimed: handleErr, given the 15th failure in a row of a key, drops the
\* key: it does not add it again and the key's retry counter is zero afterward.
C2_DroppedAfter15 ==
    [][\A w \in Workers :
          (HandlesFailure(w) /\ consecFails[item[w]] = maxRetries)
              => /\ waitingForAdd' = waitingForAdd
                 /\ failures'[item[w]] = 0]_vars

\* C2 amended: handleErr adds the key again, rate limited, after each of the
\* first 15 failures in a row, counting them; given the 16th it makes no
\* AddRateLimited call, reports the error and resets the retry counter to zero.
C2_DroppedAfter16 ==
    [][\A w \in Workers :
          HandlesFailure(w) =>
              LET k == item[w]
                  n == consecFails[k]
              IN  /\ n <= maxRetries
                       => /\ k \in waitingForAdd'
                          /\ failures'[k] = n
                          /\ verdict'[w] = "retry"
                  /\ n = maxRetries + 1
                       => /\ waitingForAdd' = waitingForAdd
                          /\ failures'[k] = 0
                          /\ verdict'[w] = "drop"
                          /\ errorSink' = "sync"]_vars

\* handleErr has dropped a key on its 16th failure in a row.
C2_Witness ==
    \E w \in Workers :
        /\ pc[w] = "done" /\ verdict[w] = "drop"
        /\ consecFails[item[w]] = maxRetries + 1
        /\ failures[item[w]] = 0

\* Worker w has run syncHPA for its key and has not yet called Done.
Synced(w) == pc[w] \in {"handleErr", "done"}

\* The positions of the resource-type metrics of the given resource name.
MetricsOf(obj, name) ==
    {i \in DOMAIN obj.metrics :
        /\ ~obj.metrics[i].resource.nil
        /\ obj.metrics[i].resource.v.name = name}

\* The target average utilization of the last metric of the given resource name.
LastTarget(obj, name) ==
    LET idx == MetricsOf(obj, name)
        last == CHOOSE i \in idx : \A j \in idx : j <= i
    IN  obj.metrics[last].resource.v.averageUtilization

\* The number a sequence of digit characters denotes, most significant first.
RECURSIVE DigitsValue(_)
DigitsValue(str) ==
    IF str = <<>> THEN 0
    ELSE LET d == CHOOSE x \in 0..9 : Digits[x + 1] = str[Len(str)]
         IN  10 * DigitsValue(SubSeq(str, 1, Len(str) - 1)) + d

\* str is the decimal string of n: digits only, no leading zero, and a minus
\* sign exactly for a negative number.
IsDecimalOf(str, n) ==
    LET neg == str # <<>> /\ Head(str) = "-"
        body == IF neg THEN Tail(str) ELSE str
    IN  /\ body # <<>>
        /\ \A i \in DOMAIN body : body[i] \in Range(Digits)
        /\ Len(body) > 1 => body[1] # "0"
        /\ neg <=> n < 0
        /\ DigitsValue(body) = IF n < 0 THEN 0 - n ELSE n

\* C3 as claimed: syncHPA of a stored resource whose spec has no metric makes
\* no Update call and returns no error.
C3_ZeroMetricsNoUpdate ==
    \A w \in Workers :
        (Synced(w) /\ call[w].seen.kind = "hpa" /\ Len(call[w].seen.metrics) = 0)
            => (~call[w].issued /\ ~err[w])

\* C7: when the lister reports not-found, syncHPA returns no error and makes no
\* Update call, and handleErr forgets the key instead of adding it again.
C7_NotFoundIsSuccess ==
    \A w \in Workers :
        (Synced(w) /\ call[w].seen = NotFound)
            => /\ ~err[w]
               /\ ~call[w].issued
               /\ pc[w] = "done" => (verdict[w] = "forget" /\ failures[item[w]] = 0)

\* handleErr has run for a key whose object was deleted before its reconcile.
C7_Witness ==
    \E w \in Workers :
        /\ pc[w] = "done" /\ call[w].seen = NotFound
        /\ cache[item[w]] = NotFound
        /\ verdict[w] = "forget"

\* C8: the Update call for a resource with a compute or memory metric carries
\* the resource's annotations overridden with the computed entries: the decimal
\* string of the last compute metric's target under cpuTargetUtilization, of the
\* last memory metric's target under memoryTargetValue, every other key as it
\* was, in a map that is never nil.
C8_UpdateCarriesMergedAnnotations ==
    \A w \in Workers :
        LET obj == call[w].seen
        IN  (/\ Synced(w) /\ call[w].issued
             /\ MetricsOf(obj, ResourceCPU) \cup MetricsOf(obj, ResourceMemory) # {})
            => LET prior == obj.annotations.kv
                   sent == call[w].sent.v.annotations
                   hasCPU == MetricsOf(obj, ResourceCPU) # {}
                   hasMem == MetricsOf(obj, ResourceMemory) # {}
                   computed == (IF hasCPU THEN {cpuTargetUtilization} ELSE {})
                                 \cup (IF hasMem THEN {memoryTargetValue} ELSE {})
               IN  /\ ~sent.nil
                   /\ DOMAIN sent.kv = DOMAIN prior \cup computed
                   /\ hasCPU => IsDecimalOf(sent.kv[cpuTargetUtilization],
                                            LastTarget(obj, ResourceCPU).v)
                   /\ hasMem => IsDecimalOf(sent.kv[memoryTargetValue],
                                            LastTarget(obj, ResourceMemory).v)
                   /\ \A x \in DOMAIN prior \ computed : sent.kv[x] = prior[x]

\* An Update call for a resource with a compute metric of target 70 and a memory
\* metric of target 60 that had an unrelated annotation and stale computed ones.
C8_Witness ==
    \E w \in Workers :
        /\ Synced(w) /\ call[w].issued
        /\ call[w].seen.annotations.kv =
              ("owner" :> <<"x">>) @@ (cpuTargetUtilization :> <<"1">>)
                                   @@ (memoryTargetValue :> <<"6", "0">>)
        /\ call[w].sent.v.annotations.kv =
              ("owner" :> <<"x">>) @@ (cpuTargetUtilization :> <<"7", "0">>)
                                   @@ (memoryTargetValue :> <<"6", "0">>)

\* C9: two reconciles in a row of a key whose stored resource is the same both
\* times and has a compute or memory metric both make the Update call, with the
\* same object; the second is not suppressed.
C9_RepeatedUpdate ==
    \A w \in Workers :
        LET obj == call[w].seen
            prev == prevCall[item[w]]
        IN  (/\ Synced(w) /\ obj.kind = "hpa" /\ prev.seen = obj
             /\ MetricsOf(obj, ResourceCPU) \cup MetricsOf(obj, ResourceMemory) # {})
            => /\ prev.issued
               /\ call[w].issued
               /\ call[w].sent = prev.sent

\* The second of two reconciles of a resource whose annotations already hold
\* the computed value has made its Update call.
C9_Witness ==
    \E w \in Workers :
        /\ Synced(w) /\ call[w].issued
        /\ prevCall[item[w]].issued
        /\ prevCall[item[w]].seen = call[w].seen
        /\ call[w].seen.metrics = <<ResourceMetric(ResourceCPU, Ptr(70))>>
        /\ call[w].sent.v.annotations = call[w].seen.annotations

NoWorkerLaunched == \A w \in Workers : pc[w] = "unstarted"
NoSyncRun == \A w \in Workers : call[w] = NoCall

\* C10 as claimed: nothing runs before the cache has synced; when stopCh is
\* closed before the cache has synced, Run returns an error and launches no
\* worker; Run returns nil only after a completed sync.
C10_StopBeforeSyncFails ==
    /\ ~hasSynced => (NoWorkerLaunched /\ NoSyncRun)
    /\ stopBeforeSync => (NoWorkerLaunched /\ runResult # "nil")
    /\ runResult = "nil" => hasSynced

\* C10 amended: nothing runs before the cache has synced.  Run returns the error
\* only from WaitForCacheSync's poll, which it enters when its first evaluation
\* finds the cache unsynced, and only with stopCh closed; it has then launched no
\* worker, whether or not the cache has synced in the meantime.  Run starts the
\* workers only when WaitForCacheSync found the cache synced, and returns nil
\* only from its wait for stopCh, with every worker launched, also when stopCh
\* was closed before the cache synced.
C10_RunWaitsForCache ==
    /\ [](~hasSynced => (NoWorkerLaunched /\ NoSyncRun))
    /\ [](runPc \in {"launch", "block"} => hasSynced)
    /\ [](runResult = "error" => (stopCh /\ NoWorkerLaunched /\ NoSyncRun /\ wq.shuttingDown))
    /\ [](runResult = "nil" =>
              (hasSynced /\ stopCh /\ wq.shuttingDown /\ \A w \in Workers : pc[w] # "unstarted"))
    /\ [](runPc = "returned" <=> runResult # "none")
    /\ [][/\ (runResult = "none" /\ runResult' = "error") => (runPc = "poll" /\ stopCh)
          /\ (runResult = "none" /\ runResult' = "nil") => (runPc = "block" /\ stopCh)
          /\ (runPc = "check" /\ runPc' = "poll") => ~hasSynced
          /\ (runPc \in {"check", "poll"} /\ runPc' = "launch") => hasSynced
          /\ runResult # "none" => runResult' = runResult]_vars

\* stopCh was closed while the cache had not synced, and yet Run found the cache
\* synced, launched every worker and returned nil.
C10_Witness ==
    /\ stopBeforeSync
    /\ runResult = "nil"
    /\ hasSynced
    /\ \A w \in Workers : pc[w] # "unstarted"

\* C4 as claimed: a notification marks its key for delivery, and under SpecFair,
\* when every Update call is answered, a notified key is eventually delivered by
\* a Get that follows the notification, which starts its syncHPA.
C4_NotifiedKeyIsSynced ==
    /\ [](\A k \in Keys : pendingEvent[k] => k \in wq.dirty)
    /\ UpdatesReturn => \A k \in Keys : pendingEvent[k] ~> ~pendingEvent[k]

\* The resource has a compute or memory metric without an average-utilization
\* target.
HasNilTarget(obj) ==
    \E i \in DOMAIN obj.metrics :
        /\ ~obj.metrics[i].resource.nil
        /\ obj.metrics[i].resource.v.name \in {ResourceCPU, ResourceMemory}
        /\ obj.metrics[i].resource.v.averageUtilization.nil

\* C12 as claimed: no syncHPA panics, whatever the resource: no worker is ever
\* in a panic state and the process stays up; the syncHPA of a resource with a
\* compute or memory metric without an average-utilization target completes,
\* and that metric adds no annotation of its own to the object sent.
C12_NilTargetSkipped ==
    /\ ~crashed
    /\ \A w \in Workers : pc[w] \notin {"panicking", "panicked"}
    /\ \A w \in Workers :
          (Synced(w) /\ call[w].issued /\ HasNilTarget(call[w].seen))
              => \A name \in {ResourceCPU, ResourceMemory} :
                    LET key == IF name = ResourceCPU THEN cpuTargetUtilization
                               ELSE memoryTargetValue
                        obj == call[w].seen
                        sent == call[w].sent.v.annotations.kv
                    IN  (\A i \in MetricsOf(obj, name) :
                            obj.metrics[i].resource.v.averageUtilization.nil)
                        => /\ key \in DOMAIN sent <=> key \in DOMAIN obj.annotations.kv
                           /\ key \in DOMAIN sent => sent[key] = obj.annotations.kv[key]

\* Worker w takes the handleErr step for a syncHPA that returned nil.
HandlesSuccess(w) == pc[w] = "handleErr" /\ pc'[w] = "done" /\ ~err[w]

\* Get delivers a key to worker w.
Delivers(w) == pc[w] = "get" /\ pc'[w] = "sync"

\* C13 as claimed: after a syncHPA that returned nil the key's retry counter is
\* zero and handleErr has added the key to nothing; a key whose last syncHPA
\* succeeded is delivered again only after a notification for it; the first
\* failure after a success is counted as the first.
C13_SuccessNeedsNewEvent ==
    [][\A w \in Workers :
          /\ HandlesSuccess(w) =>
                /\ failures'[item[w]] = 0
                /\ waitingForAdd' = waitingForAdd /\ wq' = wq
          /\ (Delivers(w) /\ consecFails[item'[w]] = 0) => pendingEvent[item'[w]]
          /\ (HandlesFailure(w) /\ consecFails[item[w]] = 1) => failures'[item[w]] = 1]_vars

\* C13 amended: after a syncHPA that returned nil handleErr resets the key's
\* retry counter to zero and adds the key to nothing; a key enters the queue only
\* by a notification for it or by a delayed re-add, scheduled by an earlier
\* failure, whose delay elapses; the first failure after a success is counted as
\* the first.
C13_SuccessForgets ==
    [][/\ \A w \in Workers :
             /\ HandlesSuccess(w) =>
                   /\ failures'[item[w]] = 0
                   /\ verdict'[w] = "forget"
                   /\ waitingForAdd' = waitingForAdd /\ wq' = wq
             /\ (HandlesFailure(w) /\ consecFails[item[w]] = 1) => failures'[item[w]] = 1
       /\ \A k \in Keys :
             (k \notin wq.dirty /\ k \in wq'.dirty)
                 => \/ pendingEvent'[k]
                    \/ k \in waitingForAdd /\ k \notin waitingForAdd']_vars

\* A syncHPA has succeeded and handleErr has forgotten the key while a delayed
\* re-add of an earlier failure of the key is still pending.
C13_Witness ==
    \E w \in Workers :
        /\ pc[w] = "done" /\ verdict[w] = "forget"
        /\ failures[item[w]] = 0
        /\ item[w] \in waitingForAdd

\* C14 as claimed: handleErr, given a failure of a key whose retry counter is
\* below 15, adds the key again rate limited and ends neither the worker nor
\* the process; under SpecFairRetry, when every Update call is answered, a key
\* that waits for its delayed re-add is eventually delivered again, which starts
\* its next syncHPA.
C14_FailureIsRetried ==
    /\ [][\A w \in Workers :
             (HandlesFailure(w) /\ failures[item[w]] < maxRetries)
                 => /\ item[w] \in waitingForAdd'
                    /\ failures'[item[w]] = failures[item[w]] + 1
                    /\ verdict'[w] = "retry"
                    /\ ~crashed']_vars
    /\ UpdatesReturn =>
          \A k \in Keys :
              k \in waitingForAdd ~> \E w \in Workers : pc[w] = "sync" /\ item[w] = k

\* Worker w takes a step of its syncHPA: up to the Update call, or the return
\* from it.
RunsSync(w) ==
    \/ pc[w] = "sync" /\ pc'[w] # "sync"
    \/ pc[w] = "update" /\ pc'[w] # "update"

\* C17: no step of syncHPA changes the store, whatever its outcome: the object
\* the store holds for every key, annotations included, is the same after the
\* step as before, and the object the Update call carries is a separate one.
C17_CacheUntouched ==
    [][\A w \in Workers : RunsSync(w) => cache' = cache]_vars

\* A syncHPA has sent an object with new annotations, the Update call has
\* failed, and the store still holds the object as it was looked up.
C17_Witness ==
    \E w \in Workers :
        /\ Synced(w) /\ call[w].issued /\ err[w]
        /\ cache[item[w]] = call[w].seen
        /\ call[w].sent.v.annotations # call[w].seen.annotations

\* enqueueHPA reports a payload whose key it cannot extract.
ReportsKeyError == errorSink # "key" /\ errorSink' = "key"

\* C18: the enqueueHPA that reports a key error leaves the queue, the delayed
\* keys and every retry counter as they were and ends no goroutine; whenever a
\* key error has been reported, a notification of an object still marks its
\* key for delivery, unless the queue is shut down.
C18_KeyErrorLeavesQueue ==
    [][/\ ReportsKeyError =>
             /\ wq' = wq /\ waitingForAdd' = waitingForAdd /\ failures' = failures
             /\ pc' = pc /\ crashed' = crashed
       /\ \A k \in Keys :
             (errorSink = "key" /\ ~pendingEvent[k] /\ pendingEvent'[k] /\ ~wq.shuttingDown)
                 => /\ k \in wq'.dirty
                    /\ k \notin wq.processing => Count(k, wq'.queue) = 1]_vars

\* A key error has been reported, two workers wait in Get and a key is queued
\* for them.
C18_Witness ==
    /\ errorSink = "key"
    /\ \E k \in Keys : pendingEvent[k] /\ Count(k, wq.queue) = 1
    /\ \A w \in Workers : pc[w] = "get"

\* C19: the retry counter of every key is always between 0 and 15; it grows
\* only by one, from a value below 15, and a handleErr that finds it at 15
\* resets it to zero.
C19_RetryCounterBounded ==
    /\ [](\A k \in Keys : failures[k] \in 0..maxRetries)
    /\ [][/\ \A k \in Keys :
               failures'[k] > failures[k]
                   => (failures[k] < maxRetries /\ failures'[k] = failures[k] + 1)
          /\ \A w \in Workers :
               (pc[w] = "handleErr" /\ pc'[w] = "done" /\ failures[item[w]] = maxRetries)
                   => failures'[item[w]] = 0]_vars

\* A key's retry counter is at 15 and the key is being reconciled again.
C19_Witness ==
    \E w \in Workers :
        /\ pc[w] = "handleErr"
        /\ failures[item[w]] = maxRetries

\* C20 as claimed: at most NumWorkers keys are in the processing set, which
\* holds exactly the keys that Get delivered and Done has not released; a key
\* leaves the processing set only by the Done of the worker that holds it, once,
\* after that worker's handleErr has run for it.
C20_DoneAfterHandleErr ==
    /\ [](Cardinality(wq.processing) <= NumWorkers)
    /\ [](~crashed => wq.processing = {item[w] : w \in {v \in Workers : InFlight(v)}})
    /\ [][\A k \in Keys :
             (k \in wq.processing /\ k \notin wq'.processing)
                 => \E w \in Workers :
                       /\ item[w] = k
                       /\ pc[w] = "done" /\ pc'[w] = "get"
                       /\ verdict[w] # "none"]_vars

\* Worker w takes the handleErr step that drops its key.
Drops(w) == HandlesFailure(w) /\ failures[item[w]] = maxRetries

\* The last syncHPA of the key was the failure it was dropped for.
Dropped(k) == consecFails[k] = maxRetries + 1

\* C16 as claimed: when handleErr drops a key no delayed re-add of the key is
\* pending, and a dropped key is delivered again only when a notification for
\* it was enqueued after the Get of the attempt it was dropped for.
C16_DroppedKeyNeedsEvent ==
    [][\A w \in Workers :
          /\ Drops(w) => item[w] \notin waitingForAdd'
          /\ (Delivers(w) /\ Dropped(item'[w])) => pendingEvent[item'[w]]]_vars

\* C16 amended: the handleErr that drops a key adds it nowhere and resets its
\* retry counter; a dropped key comes back into the queue only by a notification
\* for it or by the delayed re-add of its 15th failure, when that delay had not
\* elapsed before the 16th attempt started; it is delivered again only after
\* one of the two.
C16_DropSchedulesNothing ==
    [][/\ \A w \in Workers :
             /\ Drops(w) =>
                   /\ waitingForAdd' = waitingForAdd /\ wq' = wq
                   /\ failures'[item[w]] = 0
                   /\ verdict'[w] = "drop"
             /\ (Delivers(w) /\ Dropped(item'[w])) => item'[w] \in wq.dirty
       /\ \A k \in Keys :
             (Dropped(k) /\ k \notin wq.dirty /\ k \in wq'.dirty)
                 => \/ pendingEvent'[k]
                    \/ k \in waitingForAdd /\ k \notin waitingForAdd']_vars

\* handleErr has dropped a key while the delayed re-add of its 15th failure is
\* still pending.
C16_Witness ==
    \E w \in Workers :
        /\ pc[w] = "done" /\ verdict[w] = "drop"
        /\ Dropped(item[w])
        /\ item[w] \in waitingForAdd

\* Get returns quit to worker w.
Quits(w) == pc[w] = "get" /\ pc'[w] = "until"

\* C15 as claimed: once the queue is shut down Get delivers no key, so no
\* syncHPA starts, whether the key was queued before ShutDown or added after.
C15_NoDeliveryAfterShutDown ==
    [][wq.shuttingDown => \A w \in Workers : ~Delivers(w)]_vars

\* C15 amended: once the queue is shut down it stays so and accepts no key: an
\* Add or a delayed re-add made afterward marks nothing for delivery, and Get
\* delivers only keys that were queued, or marked for another delivery while in
\* flight, at ShutDown; Get returns quit only when the queue is shut down and
\* has no key left.
C15_DrainsAfterShutDown ==
    [][/\ wq.shuttingDown =>
             /\ wq'.shuttingDown
             /\ wq'.dirty \subseteq wq.dirty
             /\ waitingForAdd' \subseteq waitingForAdd
             /\ \A w \in Workers : Delivers(w) => item'[w] \in wq.dirty
       /\ \A w \in Workers : Quits(w) => (wq.shuttingDown /\ wq.queue = <<>>)
       /\ lateDelivery' => wq'.shuttingDown]_vars

\* After ShutDown a notification was dropped, and Get has delivered a key that
\* was still queued: its reconcile is running and nothing is marked dirty.
C15_Witness ==
    /\ wq.shuttingDown
    /\ lateDelivery
    /\ \E w \in Workers : pc[w] = "sync" /\ pendingEvent[item[w]]
    /\ wq.dirty = {}

\* Every worker loop that was started has ended.
AllExited == \A w \in Workers : pc[w] \in {"unstarted", "exited"}

\* C11 as claimed: once stopCh is closed Run returns and, when every Update call
\* is answered, every worker loop eventually exits, the worker that was blocked
\* in Get as well as the one that was reconciling a key; the worker function
\* returns only when Get reports the shutdown, and a loop ends only with stopCh
\* closed.  How many keys a worker still takes before it exits is left open.
C11_WorkersExit ==
    /\ UpdatesReturn => (stopCh ~> (runPc = "returned" /\ AllExited))
    /\ [][\A w \in Workers :
             /\ Quits(w) => wq.shuttingDown
             /\ (pc[w] # "exited" /\ pc'[w] = "exited")
                   => (stopCh /\ pc[w] = "until")]_vars

====
